---------------------------- MODULE Spec2Model ----------------------------
(***************************************************************************)
(* filetransferlib: storage clients (network folder, Azure Data Lake), the *)
(* client factory and the FileTransferManager of src/core.py.              *)
(*                                                                         *)
(* A string is a sequence of tokens: the separator "/", the token "." and  *)
(* file or directory names.  The local filesystem is one tree shared by    *)
(* the two network-folder roots and the temporary directory; an entry is   *)
(* addressed by the sequence of names from the filesystem root.  Paths     *)
(* follow pathlib's and posixpath's rules (on Windows the same rules hold  *)
(* for a base path below the root of its drive or share).                  *)
(***************************************************************************)
EXTENDS Naturals, Sequences, FiniteSets, TLC

VARIABLES
    fs,        \* local filesystem: [files: path -> content, dirs: set of paths]
    call,      \* per caller: the transfer_file / transfer_files invocation in progress
    listing,   \* result of the last direct list_files call on the source client
    reads,     \* filesystem entries opened for reading by the source client
    writes,    \* filesystem entries created or written by the destination client
    started,   \* number of calls into the library started so far
    factory,   \* the last create_storage_client call and its outcome
    clients,   \* the storage clients constructed so far
    remote,    \* the Data Lake account: <<file system, item path>> -> content
    azLast     \* the last AzureDataLakeClient call and its outcome

vars == <<fs, call, listing, reads, writes, started, factory, clients, remote, azLast>>

\* the state the FileTransferManager and its network-folder clients never touch
others == <<factory, clients, remote, azLast>>

(***************************************************************************)
(* Bounds                                                                  *)
(***************************************************************************)
MaxCalls == 2

Callers == {"c1", "c2"}

TmpNames == {"t1", "t2"}

(***************************************************************************)
(* Strings                                                                 *)
(***************************************************************************)
SEP == "/"

DOT == "."

NoStr == <<>>

\* the positions of the separator in s
SepPositions(s) == {i \in 1..Len(s) : s[i] = SEP}

MaxOf(S) == CHOOSE m \in S : \A k \in S : k <= m

MinOf(S) == CHOOSE m \in S : \A k \in S : m <= k

\* str.rstrip('/')
RECURSIVE RStrip(_)
RStrip(s) ==
    IF s # <<>> /\ s[Len(s)] = SEP THEN RStrip(SubSeq(s, 1, Len(s) - 1)) ELSE s

\* f"{a}/{b}"
FmtJoin(a, b) == a \o <<SEP>> \o b

\* posixpath.basename: everything after the last separator
Basename(s) ==
    IF SepPositions(s) = {} THEN s
    ELSE SubSeq(s, MaxOf(SepPositions(s)) + 1, Len(s))

\* posixpath.dirname: everything up to the last separator, trailing
\* separators stripped unless the head is all separators
Dirname(s) ==
    IF SepPositions(s) = {} THEN <<>>
    ELSE LET head == SubSeq(s, 1, MaxOf(SepPositions(s)))
         IN  IF RStrip(head) = <<>> THEN head ELSE RStrip(head)

\* posixpath.join(a, b)
OsJoin(a, b) ==
    IF b # <<>> /\ b[1] = SEP THEN b
    ELSE IF a = <<>> \/ a[Len(a)] = SEP THEN a \o b
    ELSE a \o <<SEP>> \o b

IsAbsStr(s) == s # <<>> /\ s[1] = SEP

EndsWithSep(s) == s # <<>> /\ s[Len(s)] = SEP

IsName(t) == t # SEP /\ t # DOT

\* the components the operating system walks: empty and "." components drop
Parts(s) == SelectSeq(s, IsName)

\* the string of the path with components p below the filesystem root
RECURSIVE AbsStr(_)
AbsStr(p) == IF p = <<>> THEN <<>> ELSE <<SEP, Head(p)>> \o AbsStr(Tail(p))

\* str() of a relative pathlib path with components p
RelStr(p) == IF p = <<>> THEN <<DOT>> ELSE Tail(AbsStr(p))

IsPrefix(a, b) == Len(a) <= Len(b) /\ SubSeq(b, 1, Len(a)) = a

(***************************************************************************)
(* pathlib                                                                 *)
(***************************************************************************)
\* Path(base) / s : an absolute right operand replaces the left one
PathJoin(base, s) == IF IsAbsStr(s) THEN Parts(s) ELSE base \o Parts(s)

\* PurePath.relative_to: ok is FALSE where pathlib raises ValueError
RelativeTo(p, base) ==
    IF IsPrefix(base, p)
    THEN [ok |-> TRUE, str |-> RelStr(SubSeq(p, Len(base) + 1, Len(p)))]
    ELSE [ok |-> FALSE, str |-> NoStr]

(***************************************************************************)
(* Filesystem                                                              *)
(***************************************************************************)
Entries(f) == DOMAIN f.files \cup f.dirs

Exists(f, p) == p \in Entries(f)

Parent(p) == SubSeq(p, 1, Len(p) - 1)

Prefixes(p) == {SubSeq(p, 1, n) : n \in 0..Len(p)}

Children(f, d) == {p \in Entries(f) : p # <<>> /\ Parent(p) = d}

\* os.makedirs(name, exist_ok=True) on the entry p
Makedirs(f, p) ==
    IF p \in f.dirs THEN [fs |-> f, err |-> "none"]
    ELSE IF p \in DOMAIN f.files THEN [fs |-> f, err |-> "FileExistsError"]
    ELSE IF \E q \in Prefixes(p) : q \in DOMAIN f.files
         THEN [fs |-> f, err |-> "NotADirectoryError"]
    ELSE [fs |-> [f EXCEPT !.dirs = @ \cup Prefixes(p)], err |-> "none"]

\* the entries os.makedirs creates
MadeDirs(f, p) == Prefixes(p) \ f.dirs

WriteFile(f, p, c) ==
    [f EXCEPT !.files = [q \in DOMAIN f.files \cup {p} |->
                             IF q = p THEN c ELSE f.files[q]]]

\* what the operating system does with a copy: it completes, the source
\* cannot be opened for reading, or the copy breaks off after the target was
\* opened for writing
IoOutcomes == {"ok", "unreadable", "interrupted"}

\* shutil.copy2(src, dst) on strings: the entry written, and the error raised
Copy2Target(f, src, dst) ==
    IF Parts(dst) \in f.dirs THEN Parts(dst) \o <<Parts(src)[Len(Parts(src))]>>
    ELSE Parts(dst)

Copy2Err(f, src, dst, io) ==
    LET s == Parts(src)
        t == Copy2Target(f, src, dst)
    IN  IF s \in f.dirs THEN "IsADirectoryError"
        ELSE IF s \notin DOMAIN f.files THEN "FileNotFoundError"
        ELSE IF EndsWithSep(src) THEN "NotADirectoryError"
        ELSE IF s = t THEN "SameFileError"
        ELSE IF io = "unreadable" THEN "OSError"
        ELSE IF t \in f.dirs THEN "IsADirectoryError"
        ELSE IF Parent(t) \in DOMAIN f.files THEN "NotADirectoryError"
        ELSE IF Parent(t) \notin f.dirs THEN "FileNotFoundError"
        ELSE IF EndsWithSep(dst) /\ Parts(dst) \in DOMAIN f.files THEN "NotADirectoryError"
        ELSE IF EndsWithSep(dst) /\ Parts(dst) \notin f.dirs THEN "FileNotFoundError"
        ELSE IF io = "interrupted" THEN "OSError"
        ELSE "none"

Copy2(f, src, dst, io) ==
    LET e == Copy2Err(f, src, dst, io)
    IN  IF e = "OSError" /\ io = "interrupted"
        THEN [fs |-> WriteFile(f, Copy2Target(f, src, dst), "partial"), err |-> e,
              at |-> Copy2Target(f, src, dst)]
        ELSE IF e # "none" THEN [fs |-> f, err |-> e, at |-> <<>>]
        ELSE [fs  |-> WriteFile(f, Copy2Target(f, src, dst), f.files[Parts(src)]),
              err |-> "none",
              at  |-> Copy2Target(f, src, dst)]

\* Path.rglob('*'): every entry below d, found by walking the directories
RECURSIVE RGlob(_, _)
RGlob(f, d) ==
    IF d \notin f.dirs THEN {}
    ELSE Children(f, d) \cup UNION {RGlob(f, c) : c \in Children(f, d) \cap f.dirs}

\* a cleanup that unlinks the files and leaves the directories
RmTreeFilesOnly(f, d) ==
    [files |-> [p \in {q \in DOMAIN f.files : ~IsPrefix(d, q)} |-> f.files[p]],
     dirs  |-> f.dirs]

\* shutil.rmtree
RmTree(f, d) ==
    [files |-> [p \in {q \in DOMAIN f.files : ~IsPrefix(d, q)} |-> f.files[p]],
     dirs  |-> {q \in f.dirs : ~IsPrefix(d, q)}]


(***************************************************************************)
(* WindowsNetworkFolderClient                                              *)
(***************************************************************************)
\* the string of a pathlib path, as the os functions receive it
PathStr(p) == IF p = <<>> THEN <<SEP>> ELSE AbsStr(p)

\* listing relative to the queried directory
ListRelQueried(base, full) == full

\* the path list_files makes each listed file relative to
ListRelBase(base, full) == base

\* list_files: the set of listed strings; the order is the directory walk's
NfListFiles(f, base, path) ==
    LET full  == PathJoin(base, path)
        found == {p \in RGlob(f, full) : p \in DOMAIN f.files}
        rel   == [p \in found |-> RelativeTo(p, ListRelBase(base, full))]
    IN  IF ~Exists(f, full) THEN [err |-> "FileNotFoundError", files |-> {}]
        ELSE IF \E p \in found : ~rel[p].ok THEN [err |-> "ValueError", files |-> {}]
        ELSE [err |-> "none", files |-> {rel[p].str : p \in found}]

\* download_file
NfDownloadFile(f, base, source_path, local_path, io) ==
    LET full == PathJoin(base, source_path)
        made == Makedirs(f, Parts(Dirname(local_path)))
    IN  IF ~Exists(f, full) THEN [fs |-> f, err |-> "FileNotFoundError", at |-> <<>>]
        ELSE IF Dirname(local_path) = <<>>
             THEN [fs |-> f, err |-> "FileNotFoundError", at |-> <<>>]
        ELSE IF made.err # "none" THEN [fs |-> f, err |-> made.err, at |-> <<>>]
        ELSE Copy2(made.fs, PathStr(full), local_path, io)

\* upload_file
NfUploadFile(f, base, local_path, dest_path, io) ==
    LET full == PathJoin(base, dest_path)
        made == Makedirs(f, Parent(full))
    IN  IF made.err # "none" THEN [fs |-> f, err |-> made.err, at |-> <<>>]
        ELSE Copy2(made.fs, local_path, PathStr(full), io)

\* the entries upload_file creates or writes
NfUploadTouched(f, base, local_path, dest_path, io) ==
    LET full == PathJoin(base, dest_path)
        r    == NfUploadFile(f, base, local_path, dest_path, io)
    IN  (IF Makedirs(f, Parent(full)).err = "none" THEN MadeDirs(f, Parent(full)) ELSE {})
        \cup (IF r.at # <<>> THEN {r.at} ELSE {})

(***************************************************************************)
(* The two clients of the FileTransferManager and the disk they start on   *)
(***************************************************************************)
SrcBase == <<"s">>

DstBase == <<"d">>

TmpRoot == <<"tmp">>

DiskA ==
    [files |-> (<<"s", "dir", "x.txt">> :> "c1") @@ (<<"s", "dir", "y.txt">> :> "c2"),
     dirs  |-> {<<>>, <<"s">>, <<"s", "dir">>, <<"d">>, <<"tmp">>}]

DiskB ==
    [files |-> (<<"s", "dir", "x.txt">> :> "c1") @@ (<<"s", "x.txt">> :> "c2"),
     dirs  |-> {<<>>, <<"s">>, <<"s", "dir">>, <<"d">>, <<"tmp">>}]

DiskC ==
    [files |-> (<<"s", "dir", "x.txt">> :> "c1") @@ (<<"s", "dir", "dir", "x.txt">> :> "c2"),
     dirs  |-> {<<>>, <<"s">>, <<"s", "dir">>, <<"s", "dir", "dir">>, <<"d">>, <<"tmp">>}]

InitDisks == {DiskA, DiskB, DiskC}

FileSrcs == {<<"dir", SEP, "x.txt">>, <<"dir", SEP, "y.txt">>, <<"x.txt">>, <<"dir">>}

FileDsts == {<<"out", SEP, "x.txt">>, <<"out">>}

BatchSrcDirs == {<<"dir">>, <<"dir", SEP>>, <<DOT>>, <<>>}

BatchDstDirs == {<<"out">>, <<>>}

ListInputs ==
    {<<>>, <<DOT>>, <<"dir">>, <<"dir", SEP>>, <<"dir", SEP, "dir">>, <<"nodir">>,
     <<"dir", SEP, "x.txt">>}

\* the sequences that enumerate the set S once each
Orders(S) ==
    {q \in [1..Cardinality(S) -> S] : \A i, j \in 1..Cardinality(S) : q[i] = q[j] => i = j}

(***************************************************************************)
(* FileTransferManager                                                     *)
(***************************************************************************)
NoListing == [path |-> NoStr, err |-> "unset", files |-> <<>>]

IdleCall ==
    [kind |-> "none", pc |-> "Idle", srcDir |-> NoStr, dstDir |-> NoStr,
     files |-> <<>>, idx |-> 0, src |-> NoStr, dst |-> NoStr,
     tmpdir |-> NoStr, local |-> NoStr, staged |-> <<>>,
     got |-> "none", put |-> "none", wrote |-> {}, err |-> "none", log |-> <<>>]

InTransfer == {"Downloading", "Uploading", "Cleanup"}

Done == {"Completed", "Failed"}

\* one staging directory for every invocation
MkdtempFixed(f) == {"t1"}

\* tempfile.mkdtemp: a directory name not in use
MkdtempChoices(f) == {n \in TmpNames : ~Exists(f, TmpRoot \o <<n>>)}

\* transfer_file, entering the with block: the temporary directory is made and
\* local_temp_path computed
EnterTransfer(c, rec, source_path, dest_path) ==
    \E n \in MkdtempChoices(fs) :
        LET tmpdir == AbsStr(TmpRoot \o <<n>>)
        IN  /\ fs' = Makedirs(fs, Parts(tmpdir)).fs
            /\ call' = [call EXCEPT ![c] =
                   [rec EXCEPT !.pc = "Downloading", !.src = source_path,
                               !.dst = dest_path, !.tmpdir = tmpdir,
                               !.local = OsJoin(tmpdir, Basename(source_path)),
                               !.staged = <<>>, !.got = "none", !.put = "none",
                               !.wrote = {}]]

\* a caller calls transfer_file(source_path, dest_path)
StartFile(c) ==
    /\ call[c].pc = "Idle"
    /\ started < MaxCalls
    /\ \E s \in FileSrcs, d \in FileDsts :
           EnterTransfer(c, [IdleCall EXCEPT !.kind = "file"], s, d)
    /\ started' = started + 1
    /\ listing' = NoListing
    /\ UNCHANGED <<reads, writes>>
    /\ UNCHANGED others

\* the upload runs whatever the download did
AfterDownloadAlways(e) == "Uploading"

\* where transfer_file goes after download_file returned or raised e
AfterDownload(e) == IF e = "none" THEN "Uploading" ELSE "Cleanup"

\* self.source_client.download_file(source_path, local_temp_path)
Download(c) ==
    /\ call[c].pc = "Downloading"
    /\ \E io \in IoOutcomes :
           LET r == NfDownloadFile(fs, SrcBase, call[c].src, call[c].local, io)
           IN  /\ fs' = r.fs
               /\ call' = [call EXCEPT ![c] =
                      [@ EXCEPT !.pc = AfterDownload(r.err), !.err = r.err,
                                !.staged = r.at,
                                !.got = IF r.err = "none" THEN r.fs.files[r.at] ELSE "none",
                                !.log = Append(@, [op |-> "download", path |-> call[c].src,
                                                   res |-> r.err])]]
               /\ reads' = IF r.at # <<>>
                           THEN reads \cup {PathJoin(SrcBase, call[c].src)} ELSE reads
    /\ UNCHANGED <<listing, writes, started>>
    /\ UNCHANGED others

\* self.dest_client.upload_file(local_temp_path, dest_path)
Upload(c) ==
    /\ call[c].pc = "Uploading"
    /\ \E io \in IoOutcomes :
           LET r == NfUploadFile(fs, DstBase, call[c].local, call[c].dst, io)
           IN  /\ fs' = r.fs
               /\ call' = [call EXCEPT ![c] =
                      [@ EXCEPT !.pc = "Cleanup", !.err = r.err,
                                !.put = IF r.err = "none" THEN r.fs.files[r.at] ELSE "none",
                                !.wrote = NfUploadTouched(fs, DstBase, call[c].local,
                                                          call[c].dst, io),
                                !.log = Append(@, [op |-> "upload", path |-> call[c].dst,
                                                   res |-> r.err])]]
               /\ writes' = writes \cup
                      NfUploadTouched(fs, DstBase, call[c].local, call[c].dst, io)
    /\ UNCHANGED <<listing, reads, started>>
    /\ UNCHANGED others

\* a batch that goes on to the next file after a failure
AfterExitContinue(kind, e) ==
    IF kind = "batch" THEN "Loop" ELSE IF e # "none" THEN "Failed" ELSE "Completed"

\* where the caller is once transfer_file has exited with error e
AfterExit(kind, e) ==
    IF e # "none" THEN "Failed" ELSE IF kind = "batch" THEN "Loop" ELSE "Completed"

\* TemporaryDirectory.__exit__, then transfer_file returns or raises
ExitTransfer(c) ==
    /\ call[c].pc = "Cleanup"
    /\ fs' = RmTree(fs, Parts(call[c].tmpdir))
    /\ call' = [call EXCEPT ![c] =
           [@ EXCEPT !.pc = AfterExit(call[c].kind, call[c].err),
                     !.idx = IF AfterExit(call[c].kind, call[c].err) = "Loop"
                             THEN @ + 1 ELSE @]]
    /\ UNCHANGED <<listing, reads, writes, started>>
    /\ UNCHANGED others

\* a caller calls transfer_files(source_dir, dest_dir): list_files runs
StartBatch(c) ==
    /\ call[c].pc = "Idle"
    /\ started < MaxCalls
    /\ \E sd \in BatchSrcDirs, dd \in BatchDstDirs :
           LET r == NfListFiles(fs, SrcBase, sd)
           IN  \E order \in Orders(r.files) :
                   call' = [call EXCEPT ![c] =
                       [IdleCall EXCEPT !.kind = "batch", !.srcDir = sd, !.dstDir = dd,
                                        !.files = order, !.idx = 1, !.err = r.err,
                                        !.pc = IF r.err = "none" THEN "Loop" ELSE "Failed"]]
    /\ started' = started + 1
    /\ listing' = NoListing
    /\ UNCHANGED <<fs, reads, writes>>
    /\ UNCHANGED others

\* the paths transfer_files hands to transfer_file for the listed file p
SourceFilePath(source_dir, p) == FmtJoin(RStrip(source_dir), p)

DestFilePath(dest_dir, p) == FmtJoin(RStrip(dest_dir), p)

\* for file_rel_path in files: the next file, or the end of the loop
LoopStep(c) ==
    /\ call[c].pc = "Loop"
    /\ IF call[c].idx > Len(call[c].files)
       THEN /\ call' = [call EXCEPT ![c].pc = "Completed"]
            /\ fs' = fs
       ELSE EnterTransfer(c, call[c],
                SourceFilePath(call[c].srcDir, call[c].files[call[c].idx]),
                DestFilePath(call[c].dstDir, call[c].files[call[c].idx]))
    /\ UNCHANGED <<listing, reads, writes, started>>
    /\ UNCHANGED others

\* the call is over; the caller may call again
Return(c) ==
    /\ call[c].pc \in Done
    /\ started < MaxCalls
    /\ call' = [call EXCEPT ![c] = IdleCall]
    /\ UNCHANGED <<fs, listing, reads, writes, started>>
    /\ UNCHANGED others

\* a direct source_client.list_files(path), between two orchestrator calls
ListFiles ==
    /\ \A c \in Callers : call[c].pc \in Done \cup {"Idle"}
    /\ started < MaxCalls
    /\ started' = started + 1
    /\ \E path \in ListInputs :
           LET r == NfListFiles(fs, SrcBase, path)
           IN  \E order \in Orders(r.files) :
                   listing' = [path |-> path, err |-> r.err, files |-> order]
    /\ UNCHANGED <<fs, call, reads, writes>>
    /\ UNCHANGED others

(***************************************************************************)
(* create_storage_client                                                   *)
(***************************************************************************)
\* a storage_type is a sequence of characters
LowerOf ==
    [ch \in {"A", "B", "C", "D", "E", "F", "G", "H", "I", "J", "K", "L", "M",
             "N", "O", "P", "Q", "R", "S", "T", "U", "V", "W", "X", "Y", "Z"} |->
        CASE ch = "A" -> "a" [] ch = "B" -> "b" [] ch = "C" -> "c" [] ch = "D" -> "d"
          [] ch = "E" -> "e" [] ch = "F" -> "f" [] ch = "G" -> "g" [] ch = "H" -> "h"
          [] ch = "I" -> "i" [] ch = "J" -> "j" [] ch = "K" -> "k" [] ch = "L" -> "l"
          [] ch = "M" -> "m" [] ch = "N" -> "n" [] ch = "O" -> "o" [] ch = "P" -> "p"
          [] ch = "Q" -> "q" [] ch = "R" -> "r" [] ch = "S" -> "s" [] ch = "T" -> "t"
          [] ch = "U" -> "u" [] ch = "V" -> "v" [] ch = "W" -> "w" [] ch = "X" -> "x"
          [] ch = "Y" -> "y" [] ch = "Z" -> "z"]

\* a comparison that keeps the caller's case
LowerNoop(s) == s

\* str.lower()
Lower(s) == [i \in 1..Len(s) |-> IF s[i] \in DOMAIN LowerOf THEN LowerOf[s[i]] ELSE s[i]]

AzureTag == <<"a", "z", "u", "r", "e", "_", "d", "a", "t", "a", "l", "a", "k", "e">>

WindowsTag == <<"w", "i", "n", "d", "o", "w", "s", "_", "n", "e", "t", "w", "o", "r", "k">>

UpperChar(ch) ==
    IF \E u \in DOMAIN LowerOf : LowerOf[u] = ch
    THEN CHOOSE u \in DOMAIN LowerOf : LowerOf[u] = ch
    ELSE ch

\* the storage_type values callers pass
AllUpper(s) == [i \in 1..Len(s) |-> UpperChar(s[i])]

Capital(s) == [i \in 1..Len(s) |-> IF i = 1 THEN UpperChar(s[i]) ELSE s[i]]

Zigzag(s) == [i \in 1..Len(s) |-> IF i % 2 = 0 THEN UpperChar(s[i]) ELSE s[i]]

TagInputs ==
    {AzureTag, AllUpper(AzureTag), Capital(AzureTag), Zigzag(AzureTag),
     WindowsTag, AllUpper(WindowsTag), Capital(WindowsTag), Zigzag(WindowsTag),
     <<>>, <<"s", "3">>, <<"A", "Z", "U", "R", "E">>, SubSeq(AzureTag, 1, 5),
     AzureTag \o <<" ">>, <<"w", "i", "n", "d", "o", "w", "s", "-", "n", "e", "t", "w", "o", "r", "k">>}

\* the keyword arguments callers pass
KwInputs ==
    {[base_path |-> <<SEP, "s">>], [base_path |-> <<SEP, "d">>],
     [base_path |-> <<SEP, "nodir">>],
     [account_url |-> "https://acct.dfs.core.windows.net", credential |-> "key"],
     [account_url |-> "https://acct.dfs.core.windows.net"]}

NoClient == [kind |-> "none"]

\* WindowsNetworkFolderClient(**kw)
NewWindowsClient(f, kw) ==
    IF DOMAIN kw # {"base_path"} THEN [err |-> "TypeError", client |-> NoClient]
    ELSE IF ~Exists(f, Parts(kw.base_path))
         THEN [err |-> "ValueError: Base path does not exist", client |-> NoClient]
    ELSE [err |-> "none",
          client |-> [kind |-> "WindowsNetworkFolderClient", base_path |-> Parts(kw.base_path)]]

\* AzureDataLakeClient(**kw); sdk is whether DataLakeServiceClient accepts the
\* account url and credential
NewAzureClient(kw, sdk) ==
    IF ~("account_url" \in DOMAIN kw /\ DOMAIN kw \subseteq {"account_url", "credential"})
    THEN [err |-> "TypeError", client |-> NoClient]
    ELSE IF ~sdk THEN [err |-> "SdkError", client |-> NoClient]
    ELSE [err |-> "none",
          client |-> [kind |-> "AzureDataLakeClient", account_url |-> kw.account_url,
                      credential |-> IF "credential" \in DOMAIN kw THEN kw.credential
                                     ELSE "None"]]

\* create_storage_client(storage_type, **kwargs): the constructor chosen, what it
\* raised, and what the factory returns or raises
CreateStorageClient(f, storage_type, kwargs, sdk) ==
    LET st == Lower(storage_type)
    IN  IF st = AzureTag
        THEN LET r == NewAzureClient(kwargs, sdk)
             IN  [ctor |-> "AzureDataLakeClient", ctorKw |-> kwargs, ctorErr |-> r.err,
                  err |-> r.err, client |-> r.client]
        ELSE IF st = WindowsTag
        THEN LET r == NewWindowsClient(f, kwargs)
             IN  [ctor |-> "WindowsNetworkFolderClient", ctorKw |-> kwargs,
                  ctorErr |-> r.err, err |-> r.err, client |-> r.client]
        ELSE [ctor |-> "none", ctorKw |-> <<>>, ctorErr |-> "none",
              err |-> "ValueError: Unsupported storage_type", client |-> NoClient]

NoMade == [tag |-> <<"?">>, kw |-> <<>>, had |-> 0, out |-> <<>>]

\* a caller calls create_storage_client
Create ==
    /\ started < MaxCalls
    /\ started' = started + 1
    /\ \E tag \in TagInputs, kw \in KwInputs, sdk \in BOOLEAN :
           LET r == CreateStorageClient(fs, tag, kw, sdk)
           IN  /\ factory' = [tag |-> tag, kw |-> kw, had |-> Len(clients), out |-> r]
               /\ clients' = IF r.client = NoClient THEN clients
                             ELSE Append(clients, r.client)
    /\ UNCHANGED <<fs, call, listing, reads, writes, remote, azLast>>

(***************************************************************************)
(* AzureDataLakeClient                                                     *)
(***************************************************************************)
\* a split that pads a missing item path, as str.partition does
SplitPartition(s) ==
    IF SepPositions(s) = {} THEN <<s, <<>>>>
    ELSE <<SubSeq(s, 1, MinOf(SepPositions(s)) - 1),
           SubSeq(s, MinOf(SepPositions(s)) + 1, Len(s))>>

\* the list str.split('/', 1) returns
SplitFirst(s) ==
    IF SepPositions(s) = {} THEN <<s>>
    ELSE <<SubSeq(s, 1, MinOf(SepPositions(s)) - 1),
           SubSeq(s, MinOf(SepPositions(s)) + 1, Len(s))>>

\* open(local_path, 'wb') and the write: the error raised, if any
OpenWriteErr(f, local_path) ==
    LET t == Parts(local_path)
    IN  IF t \in f.dirs THEN "IsADirectoryError"
        ELSE IF Parent(t) \in DOMAIN f.files \/ (EndsWithSep(local_path) /\ t \in DOMAIN f.files)
             THEN "NotADirectoryError"
        ELSE IF Parent(t) \notin f.dirs THEN "FileNotFoundError"
        ELSE "none"

\* open(local_path, 'rb') and the read
OpenReadErr(f, local_path) ==
    LET t == Parts(local_path)
    IN  IF t \in f.dirs THEN "IsADirectoryError"
        ELSE IF t \notin DOMAIN f.files THEN "FileNotFoundError"
        ELSE IF EndsWithSep(local_path) THEN "NotADirectoryError"
        ELSE "none"

AzResult(f, rem, err, sdk, logged) ==
    [fs |-> f, remote |-> rem, err |-> err, sdk |-> sdk, logged |-> logged]

\* what the service does with a request: it answers, it refuses it, or the
\* connection drops while the content is read
SvcOutcomes == {"ok", "refused", "dropped"}

\* download_file
AzDownloadFile(f, rem, source_path, local_path, svc) ==
    LET sp   == SplitFirst(source_path)
        item == <<sp[1], sp[2]>>
        made1 == Makedirs(f, Parts(Dirname(local_path)))
        calls == <<"get_file_system_client", "get_file_client", "download_file">>
    IN  IF Len(sp) # 2 THEN AzResult(f, rem, "ValueError", <<>>, FALSE)
        ELSE IF svc = "refused" \/ item \notin DOMAIN rem
             THEN AzResult(f, rem, "AzureError", calls, TRUE)
        ELSE IF Dirname(local_path) = <<>>
             THEN AzResult(f, rem, "FileNotFoundError", calls, FALSE)
        ELSE IF made1.err # "none" THEN AzResult(f, rem, made1.err, calls, FALSE)
        ELSE IF OpenWriteErr(made1.fs, local_path) # "none"
             THEN AzResult(made1.fs, rem, OpenWriteErr(made1.fs, local_path), calls, FALSE)
        ELSE IF svc = "dropped"
             THEN AzResult(WriteFile(made1.fs, Parts(local_path), "partial"), rem,
                           "AzureError", Append(calls, "readinto"), TRUE)
        ELSE AzResult(WriteFile(made1.fs, Parts(local_path), rem[item]), rem, "none",
                      Append(calls, "readinto"), FALSE)

\* upload_file
AzUploadFile(f, rem, local_path, dest_path, svc) ==
    LET sp   == SplitFirst(dest_path)
        item == <<sp[1], sp[2]>>
        got  == <<"get_file_system_client", "get_file_client">>
    IN  IF Len(sp) # 2 THEN AzResult(f, rem, "ValueError", <<>>, FALSE)
        ELSE IF OpenReadErr(f, local_path) # "none"
             THEN AzResult(f, rem, OpenReadErr(f, local_path), got, FALSE)
        ELSE IF svc # "ok"
             THEN AzResult(f, rem, "AzureError", Append(got, "upload_data"), TRUE)
        ELSE AzResult(f,
                      [k \in DOMAIN rem \cup {item} |->
                           IF k = item THEN f.files[Parts(local_path)] ELSE rem[k]],
                      "none", Append(got, "upload_data"), FALSE)

AzPaths == {<<"lake", SEP, "a.txt">>, <<"lake", SEP, "b", SEP, "a.txt">>, <<"lake">>, <<>>}

AzLocals ==
    {<<SEP, "tmp", SEP, "a.txt">>, <<SEP, "tmp", SEP, "new", SEP, "a.txt">>,
     <<SEP, "s", SEP, "dir", SEP, "x.txt">>}

InitRemote == (<<<<"lake">>, <<"a.txt">>>> :> "r1")

NoAzLast == [op |-> "none", path |-> NoStr, local |-> NoStr, err |-> "none",
             sdk |-> <<>>, logged |-> FALSE]

AzureCall(op, path, local, r) ==
    /\ fs' = r.fs
    /\ remote' = r.remote
    /\ azLast' = [op |-> op, path |-> path, local |-> local, err |-> r.err,
                  sdk |-> r.sdk, logged |-> r.logged]

\* a caller calls AzureDataLakeClient.download_file
AzureDownload ==
    /\ started < MaxCalls
    /\ started' = started + 1
    /\ \E path \in AzPaths, local \in AzLocals, svc \in SvcOutcomes :
           AzureCall("download", path, local, AzDownloadFile(fs, remote, path, local, svc))
    /\ UNCHANGED <<call, listing, reads, writes, factory, clients>>

\* a caller calls AzureDataLakeClient.upload_file
AzureUpload ==
    /\ started < MaxCalls
    /\ started' = started + 1
    /\ \E path \in AzPaths, local \in AzLocals, svc \in SvcOutcomes :
           AzureCall("upload", path, local, AzUploadFile(fs, remote, local, path, svc))
    /\ UNCHANGED <<call, listing, reads, writes, factory, clients>>

Init ==
    /\ fs \in InitDisks
    /\ call = [c \in Callers |-> IdleCall]
    /\ listing = NoListing
    /\ reads = {}
    /\ writes = {}
    /\ started = 0
    /\ factory = NoMade
    /\ clients = <<>>
    /\ remote = InitRemote
    /\ azLast = NoAzLast

\* one transfer_file invocation among several on the same manager
ConcStart(c) ==
    /\ call[c].pc = "Idle"
    /\ \E s \in FileSrcs, d \in FileDsts :
           EnterTransfer(c, [IdleCall EXCEPT !.kind = "file"], s, d)
    /\ UNCHANGED <<listing, reads, writes, started>>
    /\ UNCHANGED others

\* the program as the source runs it: one call at a time, each to its end
Main == "c1"

Next ==
    \/ ListFiles
    \/ StartFile(Main)
    \/ StartBatch(Main)
    \/ LoopStep(Main)
    \/ Download(Main)
    \/ Upload(Main)
    \/ ExitTransfer(Main)
    \/ Return(Main)

Spec == Init /\ [][Next]_vars

\* several callers each inside transfer_file on one manager
NextConc ==
    \E c \in Callers :
        \/ ConcStart(c)
        \/ Download(c)
        \/ Upload(c)
        \/ ExitTransfer(c)

SpecConc == Init /\ [][NextConc]_vars

\* callers of the factory
NextFactory == Create

SpecFactory == Init /\ [][NextFactory]_vars

\* callers of an AzureDataLakeClient
NextAzure == AzureDownload \/ AzureUpload

SpecAzure == Init /\ [][NextAzure]_vars


(***************************************************************************)
(* Properties of the FileTransferManager                                   *)
(***************************************************************************)
Last(q) == q[Len(q)]

\* the number of download events among the first j events of log q
Downloads(q, j) == Cardinality({i \in 1..j : q[i].op = "download"})

IsFile(f, p) == p \in DOMAIN f.files

DirX == <<"dir", SEP, "x.txt">>

DirY == <<"dir", SEP, "y.txt">>

\* C1: with dir/x.txt and dir/y.txt under the source root,
\* transfer_files("dir", "out") ends without error and the destination then
\* holds out/x.txt and out/y.txt with the source files' content; each listed
\* path p is fetched from source_dir/p, which addresses the listed file, and
\* stored at dest_dir/p.
C1_BatchCopiesDir ==
    \A c \in Callers :
        LET r == call[c]
            q == r.log
        IN  ( /\ r.kind = "batch" /\ r.srcDir = <<"dir">> /\ r.dstDir = <<"out">>
              /\ r.pc \in Done
              /\ IsFile(fs, PathJoin(SrcBase, DirX))
              /\ IsFile(fs, PathJoin(SrcBase, DirY)) )
            => /\ r.pc = "Completed"
               /\ IsFile(fs, DstBase \o <<"out", "x.txt">>)
               /\ IsFile(fs, DstBase \o <<"out", "y.txt">>)
               /\ fs.files[DstBase \o <<"out", "x.txt">>] = fs.files[PathJoin(SrcBase, DirX)]
               /\ fs.files[DstBase \o <<"out", "y.txt">>] = fs.files[PathJoin(SrcBase, DirY)]
               /\ \A j \in 1..Len(q) :
                      LET p == r.files[Downloads(q, j)]
                      IN  /\ q[j].op = "download" =>
                                 /\ q[j].path = FmtJoin(r.srcDir, p)
                                 /\ PathJoin(SrcBase, q[j].path) = PathJoin(SrcBase, p)
                          /\ q[j].op = "upload" => q[j].path = FmtJoin(r.dstDir, p)

\* C2: upload_file runs only right after a successful download_file of the
\* same transfer; a failed download is the transfer's last event (no upload,
\* no retry), leaves nothing written at the destination, and its error is
\* the one the caller gets.
C2_UploadOnlyAfterDownload ==
    \A c \in Callers :
        LET r == call[c]
            q == r.log
        IN  /\ \A j \in 1..Len(q) :
                   /\ q[j].op = "upload" =>
                          /\ j > 1
                          /\ q[j - 1].op = "download"
                          /\ q[j - 1].res = "none"
                   /\ (q[j].op = "download" /\ q[j].res # "none") => j = Len(q)
            /\ (q # <<>> /\ Last(q).op = "download" /\ Last(q).res # "none") =>
                   /\ r.pc \in {"Cleanup", "Failed"}
                   /\ r.err = Last(q).res
                   /\ r.wrote = {}
                   /\ r.put = "none"
            /\ (r.pc = "Uploading") =>
                   (q # <<>> /\ Last(q) = [op |-> "download", path |-> r.src, res |-> "none"])

\* a download failed with NotFound and the call has ended
C2_Witness ==
    \E c \in Callers :
        /\ call[c].pc = "Failed"
        /\ call[c].kind = "file"
        /\ call[c].log = <<[op |-> "download", path |-> call[c].src,
                            res |-> "FileNotFoundError"]>>

\* C3: when transfer_file exits (return, failed download or failed upload),
\* the staging file and its temporary directory are gone from the disk.
C3_StagingRemovedOnExit ==
    [][\A c \in Callers :
           (call[c].pc \in InTransfer /\ call'[c].pc \notin InTransfer) =>
               /\ \A p \in Entries(fs') : ~IsPrefix(Parts(call[c].tmpdir), p)
               /\ ~Exists(fs', Parts(call[c].local))]_vars

\* a transfer whose upload failed has ended and its temporary directory is gone
C3_Witness ==
    \E c \in Callers :
        /\ call[c].pc = "Failed"
        /\ call[c].log # <<>>
        /\ Last(call[c].log).op = "upload"
        /\ call[c].got # "none"
        /\ ~Exists(fs, Parts(call[c].tmpdir))

\* C4: transfer_files transfers one file at a time in listing order and
\* stops at the first failure: the error reaches the caller, nothing is
\* attempted for later files, earlier files stay at the destination.
C4_BatchSequentialFailFast ==
    \A c \in Callers :
        LET r == call[c]
            q == r.log
        IN  r.kind = "batch" =>
            /\ \A j \in 1..Len(q) :
                   /\ Downloads(q, j) \in 1..Len(r.files)
                   /\ q[j].op = "download" =>
                          /\ q[j].path = FmtJoin(RStrip(r.srcDir), r.files[Downloads(q, j)])
                          /\ j > 1 => (q[j - 1].op = "upload" /\ q[j - 1].res = "none")
                   /\ q[j].op = "upload" =>
                          /\ q[j].path = FmtJoin(RStrip(r.dstDir), r.files[Downloads(q, j)])
                          /\ q[j - 1].op = "download"
                   /\ q[j].res # "none" => (j = Len(q) /\ r.pc \in {"Cleanup", "Failed"})
            /\ Downloads(q, Len(q)) <= r.idx
            /\ (r.pc = "Failed" /\ q # <<>>) =>
                   /\ r.err = Last(q).res
                   /\ r.err # "none"
                   /\ Downloads(q, Len(q)) = r.idx
            /\ r.pc = "Completed" => (r.err = "none" /\ Downloads(q, Len(q)) = Len(r.files))
            /\ \A k \in 1..Len(r.files) :
                   k < r.idx => IsFile(fs, PathJoin(DstBase, FmtJoin(RStrip(r.dstDir), r.files[k])))

\* a batch failed at its second file after transferring the first
C4_Witness ==
    \E c \in Callers :
        /\ call[c].kind = "batch"
        /\ call[c].pc = "Failed"
        /\ call[c].idx = 2
        /\ Len(call[c].files) >= 2

\* C5: after a successful transfer_file(s, d) the destination file at d
\* exists with the content of the source file at s, whether or not d was
\* occupied before.
C5_DestEqualsSource ==
    \A c \in Callers :
        LET r == call[c]
        IN  (r.kind = "file" /\ r.pc = "Completed") =>
                /\ IsFile(fs, PathJoin(DstBase, r.dst))
                /\ fs.files[PathJoin(DstBase, r.dst)] = fs.files[PathJoin(SrcBase, r.src)]

\* C9: every entry the source client reads and every entry the destination
\* client creates or writes lies under that client's root, and so does every
\* per-file path of transfer_files, also for an empty source_dir or dest_dir.
C9_StaysUnderRoot ==
    /\ \A p \in reads : IsPrefix(SrcBase, p)
    /\ \A p \in writes : IsPrefix(DstBase, p)
    /\ \A c \in Callers :
           (call[c].kind = "batch" /\ call[c].pc \in InTransfer) =>
               /\ IsPrefix(SrcBase, PathJoin(SrcBase, call[c].src))
               /\ IsPrefix(DstBase, PathJoin(DstBase, call[c].dst))

\* C6: concurrent transfer_file invocations stage in distinct locations, also
\* for sources with one basename: what an invocation uploads is what it
\* downloaded, and its staged file survives the other invocations' cleanup.
C6_StagingNotShared ==
    /\ \A c1, c2 \in Callers :
           (c1 # c2 /\ call[c1].pc \in InTransfer /\ call[c2].pc \in InTransfer) =>
               /\ call[c1].tmpdir # call[c2].tmpdir
               /\ Parts(call[c1].local) # Parts(call[c2].local)
    /\ \A c \in Callers :
           /\ call[c].pc = "Uploading" =>
                  /\ IsFile(fs, call[c].staged)
                  /\ fs.files[call[c].staged] = call[c].got
           /\ call[c].put # "none" => call[c].put = call[c].got

\* two invocations with one basename and different content are both between
\* download and upload
C6_Witness ==
    \E c1, c2 \in Callers :
        /\ c1 # c2
        /\ call[c1].pc = "Uploading"
        /\ call[c2].pc = "Uploading"
        /\ Basename(call[c1].src) = Basename(call[c2].src)
        /\ call[c1].got # call[c2].got

(***************************************************************************)
(* Properties of the clients and the factory                               *)
(***************************************************************************)
Range(q) == {q[i] : i \in 1..Len(q)}

\* the files strictly below root/path, each as a string relative to the root
LeafFilesBelow(f, root, path) ==
    {RelStr(SubSeq(p, Len(root) + 1, Len(p))) :
        p \in {q \in DOMAIN f.files : IsPrefix(root \o Parts(path), q) /\ q # root \o Parts(path)}}

\* C7: list_files(path) of the network-folder client returns exactly the files
\* below root/path, no directory, each relative to the root and once; the
\* same disk gives the same set; a path that does not exist gives NotFound.
C7_ListFilesExact ==
    listing.err # "unset" =>
        IF Exists(fs, SrcBase \o Parts(listing.path))
        THEN /\ listing.err = "none"
             /\ Range(listing.files) = LeafFilesBelow(fs, SrcBase, listing.path)
             /\ Len(listing.files) = Cardinality(Range(listing.files))
             /\ \A s \in Range(listing.files) : IsFile(fs, SrcBase \o Parts(s))
        ELSE /\ listing.err = "FileNotFoundError"
             /\ listing.files = <<>>

\* list_files("dir") returned dir/x.txt and dir/y.txt
C7_Witness ==
    /\ listing.path = <<"dir">>
    /\ listing.err = "none"
    /\ Range(listing.files) = {DirX, DirY}

\* a and b differ at most in the case of their letters
SameModCase(a, b) ==
    /\ Len(a) = Len(b)
    /\ \A i \in 1..Len(a) :
           \/ a[i] = b[i]
           \/ a[i] \in DOMAIN LowerOf /\ LowerOf[a[i]] = b[i]
           \/ b[i] \in DOMAIN LowerOf /\ LowerOf[b[i]] = a[i]

\* C8: create_storage_client picks the client by the storage type whatever the
\* letters' case and hands it the caller's parameters; any other storage type
\* raises the unsupported-type error and constructs nothing; what the chosen
\* constructor raises is what the caller gets.
C8_FactoryCaseInsensitive ==
    factory # NoMade =>
        LET o == factory.out
        IN  /\ SameModCase(factory.tag, AzureTag) =>
                   (o.ctor = "AzureDataLakeClient" /\ o.ctorKw = factory.kw)
            /\ SameModCase(factory.tag, WindowsTag) =>
                   (o.ctor = "WindowsNetworkFolderClient" /\ o.ctorKw = factory.kw)
            /\ (~SameModCase(factory.tag, AzureTag) /\ ~SameModCase(factory.tag, WindowsTag)) =>
                   /\ o.err = "ValueError: Unsupported storage_type"
                   /\ o.ctor = "none"
                   /\ o.client = NoClient
                   /\ Len(clients) = factory.had
            /\ o.ctor # "none" =>
                   /\ o.err = o.ctorErr
                   /\ o.err # "ValueError: Unsupported storage_type"
                   /\ o.err # "none" => (o.client = NoClient /\ Len(clients) = factory.had)
                   /\ o.err = "none" => (o.client.kind = o.ctor /\ Last(clients) = o.client)

\* an upper-case storage type built an Azure client
C8_Witness ==
    /\ factory.tag = AllUpper(AzureTag)
    /\ factory.out.err = "none"
    /\ factory.out.client.kind = "AzureDataLakeClient"

\* C10: download_file and upload_file of the Data Lake client, given a path
\* with no "/", fail with the invalid-path error before any service call and
\* before anything is created on the local disk.
C10_BareContainerRejected ==
    [][(started' # started /\ SepPositions(azLast'.path) = {}) =>
           /\ azLast'.err = "ValueError"
           /\ azLast'.sdk = <<>>
           /\ fs' = fs
           /\ remote' = remote]_vars

\* download_file("lake", ...) raised and an upload had stored an item before
C10_Witness ==
    /\ azLast.op = "download"
    /\ azLast.path = <<"lake">>
    /\ azLast.err = "ValueError"
    /\ DOMAIN remote # DOMAIN InitRemote

=============================================================================
